---- MODULE Spec2Model ----
(***************************************************************************)
(* Recording pipeline of the hosting app: the Broadcaster component       *)
(* (src/unnamed/part_001: camera stream, MediaRecorder, duration timer,    *)
(* saveRecording to localStorage) and the VideoGallery component           *)
(* (src/unnamed/part_000: loadSavedVideos, deleteVideo).                   *)
(***************************************************************************)
EXTENDS Integers, Naturals, Sequences, FiniteSets, TLC

\* ---- bounds ----
MaxTicks == 2
MaxChunks == 2
MaxRecs == 2

\* streamId prop of the Broadcaster
StreamId == "s1"

\* entries possibly present under localStorage 'savedVideos'
GV1 == [id |-> 101, filename |-> <<"stream", "s0", 1>>, url |-> <<"blob", 101>>,
        timestamp |-> 1, duration |-> 2, streamId |-> "s0"]
GV2 == [id |-> 102, filename |-> <<"stream", "s0", 2>>, url |-> <<"blob", 102>>,
        timestamp |-> 2, duration |-> 1, streamId |-> "s0"]
\* an entry saved by an earlier session under 'streamRecordings'; its
\* Date.now() id is reachable again when the wall clock has been set back
OldRec == [id |-> 1, streamId |-> "s0", filename |-> <<"stream", "s0", 1>>,
           date |-> 1, duration |-> 2, url |-> <<"blob", 0>>]
InitStreamRecordings == { <<>>, <<OldRec>> }
InitSavedVideos == { <<>>, <<GV1>>, <<GV1, GV2>> }
DeleteIds == {101, 102, 103}

VARIABLES
  \* Broadcaster
  mounted, cameraPending, stream, mimeSupported,
  isStreaming, isRecording, recordingDuration, intervals, intervalRef,
  recs, curRec, chunksRef, pendingStop, nextChunk, now, nextUrl,
  lsStreamRecordings, saves,
  \* whether localStorage holds the 'streamRecordings' / 'savedVideos' keys
  lsHasRecordings, lsHasSaved,
  \* camera tracks and the isVideoEnabled/isAudioEnabled UI state
  tracks, uiEnabled,
  \* VideoGallery
  lsSavedVideos, galleryList, galleryLoaded, selected, removedIds,
  appendsAtLoad,
  \* browser blob-URL registry
  liveUrls,
  \* last operation performed and its outcome
  lastOp,
  \* VideoGallery query: savedVideos, searchTerm, filterBy, sortBy, the
  \* render-time new Date(), and filteredAndSortedVideos
  qEntries, qTerm, qFilter, qSort, qNow, qResult

bVars == <<mounted, cameraPending, stream, mimeSupported, isStreaming,
           isRecording, recordingDuration, intervals, intervalRef, recs, curRec,
           chunksRef, pendingStop, nextChunk, now, nextUrl,
           lsStreamRecordings, saves, tracks, uiEnabled, lsHasRecordings>>
gVars == <<lsSavedVideos, lsHasSaved, galleryList, galleryLoaded, selected, removedIds,
           appendsAtLoad>>
qVars == <<qEntries, qTerm, qFilter, qSort, qNow, qResult>>
vars == <<bVars, gVars, liveUrls, lastOp, qVars>>

trackVars == <<tracks, uiEnabled>>

Kinds == {"video", "audio"}

\* MediaStream.active: some track has not ended
StreamAfter(tr) == IF \E k \in Kinds : tr[k].live THEN "live" ELSE "ended"

\* stopping only the first (video) track would be a bug
StopTracksBad(tr) == [tr EXCEPT !["video"].live = FALSE]

\* streamRef.current.getTracks().forEach(track => track.stop())
StopTracks(tr) == [k \in Kinds |-> [tr[k] EXCEPT !.live = FALSE]]

Range(s) == { s[i] : i \in DOMAIN s }

NoOp == [op |-> "none", stream |-> "none", wasRecording |-> FALSE,
         arg |-> 0, result |-> "none"]

BInit ==
  /\ mounted = TRUE
  /\ cameraPending = TRUE
  /\ stream = "none"
  /\ mimeSupported \in BOOLEAN
  /\ isStreaming = FALSE
  /\ isRecording = FALSE
  /\ recordingDuration = 0
  /\ intervals = {}
  /\ intervalRef = 0
  /\ recs = <<>>
  /\ curRec = 0
  /\ chunksRef = <<>>
  /\ pendingStop = {}
  /\ nextChunk = 1
  /\ now = 0
  /\ nextUrl = 1
  /\ lsStreamRecordings \in InitStreamRecordings
  /\ saves = <<>>
  /\ lsSavedVideos \in InitSavedVideos
  \* a key that was never written is absent
  /\ lsHasRecordings = (lsStreamRecordings # <<>>)
  /\ lsHasSaved = (lsSavedVideos # <<>>)
  /\ galleryList = <<>>
  /\ galleryLoaded = FALSE
  /\ selected = {}
  /\ removedIds = {}
  /\ appendsAtLoad = 0
  \* a blob URL does not outlive the document that created it: none is live
  /\ liveUrls = {}
  /\ lastOp = NoOp
  /\ tracks = [k \in Kinds |-> [live |-> FALSE, enabled |-> TRUE]]
  /\ uiEnabled = [k \in Kinds |-> TRUE]

\* startCamera: getUserMedia resolves (stream) or rejects (alert, no stream)
AcquireCamera ==
  /\ cameraPending
  /\ cameraPending' = FALSE
  /\ \E ok \in BOOLEAN :
       /\ stream' = IF ok THEN "live" ELSE "none"
       /\ tracks' = IF ok THEN [k \in Kinds |-> [live |-> TRUE, enabled |-> TRUE]]
                    ELSE tracks
  /\ lastOp' = [NoOp EXCEPT !.op = "startCamera"]
  /\ UNCHANGED <<mounted, mimeSupported, isStreaming, isRecording,
                 recordingDuration, intervals, intervalRef, recs, curRec, chunksRef,
                 pendingStop, nextChunk, now, nextUrl, lsStreamRecordings, lsHasRecordings,
                 saves, gVars, liveUrls, uiEnabled>>

\* mediaRecorder.ondataavailable: push the blob when event.data.size > 0
OnDataAvailable(chunks, data) ==
  IF data.size > 0 THEN Append(chunks, data.id) ELSE chunks

\* onstop running before the final dataavailable has been pushed
StopTaskSeenBad(chunks, final) == chunks

\* The MediaRecorder stop task fires the final dataavailable and then
\* stop in one task; onstop (saveRecording) sees the chunks pushed by it.
StopTaskSeen(chunks, final) == OnDataAvailable(chunks, final)

\* the record appended by saveRecording (Date.now()/toISOString() are `now`)
RecordingEntry(dur) ==
  [id |-> now, streamId |-> StreamId, filename |-> <<"stream", StreamId, now>>,
   date |-> now, duration |-> dur, url |-> <<"blob", nextUrl>>]

\* JSON.parse(localStorage.getItem(key)) without the || '[]' fallback:
\* an absent key parses to null, and push/filter on it throw TypeError
ParseItemBad(present, ls) ==
  IF present THEN [ok |-> TRUE, list |-> ls] ELSE [ok |-> FALSE, list |-> <<>>]

\* JSON.parse(localStorage.getItem(key) || '[]')
ParseItem(present, ls) == [ok |-> TRUE, list |-> IF present THEN ls ELSE <<>>]

\* reading the list as empty (losing the stored entries) would be a bug
ReadRecordingsBad(ls) == <<>>

\* JSON.parse(localStorage.getItem('streamRecordings') || '[]')
ReadRecordings(ls) == ls

\* a try/catch around setItem that only logs would hide the failure
SaveOutcomeBad(setItemOk) == "ok"

\* no try/catch: setItem's QuotaExceededError propagates out of saveRecording
SaveOutcome(setItemOk) == IF setItemOk THEN "ok" ELSE "QuotaExceededError"

\* saveRecording, run from onstop of recorder r with the chunks it sees and
\* the recordingDuration captured by its closure
SaveRecording(chunks, dur, r) ==
  IF Len(chunks) = 0
  THEN /\ lastOp' = [NoOp EXCEPT !.op = "onstop", !.arg = r, !.result = "empty"]
       /\ UNCHANGED <<lsStreamRecordings, lsHasRecordings, saves, nextUrl>>
  \* createObjectURL then revokeObjectURL: the URL is dead afterwards
  ELSE /\ nextUrl' = nextUrl + 1
       \* localStorage.setItem either stores the list or throws
       \* QuotaExceededError, which nothing catches
       /\ LET parsed == ParseItem(lsHasRecordings, lsStreamRecordings) IN
          IF ~parsed.ok
          THEN /\ saves' = Append(saves, [rec |-> r, chunks |-> chunks,
                                          entry |-> RecordingEntry(dur),
                                          stored |-> FALSE])
               /\ lastOp' = [NoOp EXCEPT !.op = "onstop", !.arg = r,
                                         !.result = "TypeError"]
               /\ UNCHANGED <<lsStreamRecordings, lsHasRecordings>>
          ELSE \E setItemOk \in BOOLEAN :
            /\ lsStreamRecordings' =
                 IF setItemOk
                 THEN Append(ReadRecordings(parsed.list), RecordingEntry(dur))
                 ELSE lsStreamRecordings
            /\ lsHasRecordings' = (lsHasRecordings \/ setItemOk)
            /\ saves' = Append(saves, [rec |-> r, chunks |-> chunks,
                                       entry |-> RecordingEntry(dur),
                                       stored |-> setItemOk])
            /\ lastOp' = [NoOp EXCEPT !.op = "onstop", !.arg = r,
                            !.result = SaveOutcome(setItemOk)]

NewRec(dur) == [state |-> "inactive", onstopDur |-> dur, emitted |-> <<>>,
                ticks |-> 0, final |-> [id |-> 0, size |-> 0],
                finalized |-> FALSE, stopped |-> FALSE, handoffs |-> 0]

\* startStreaming (Start button, shown while !isStreaming)
StartStreaming ==
  /\ mounted /\ ~isStreaming
  /\ IF stream = "none"
     THEN /\ lastOp' = [op |-> "startStreaming", stream |-> stream,
                        wasRecording |-> isRecording, arg |-> 0,
                        result |-> "ignored"]
          /\ UNCHANGED <<isStreaming, isRecording, recordingDuration,
                         intervals, intervalRef, recs, curRec, chunksRef>>
     ELSE /\ isStreaming' = TRUE
          /\ isRecording' = TRUE
          /\ recordingDuration' = 0
          /\ IF ~mimeSupported
             \* new MediaRecorder throws NotSupportedError: caught, logged
             THEN /\ lastOp' = [op |-> "startStreaming", stream |-> stream,
                                wasRecording |-> isRecording, arg |-> 0,
                                result |-> "caught"]
                  /\ UNCHANGED <<intervals, intervalRef, recs, curRec, chunksRef>>
             ELSE /\ Len(recs) < MaxRecs
                  /\ curRec' = Len(recs) + 1
                  /\ chunksRef' = <<>>
                  /\ IF stream = "live"
                     THEN /\ recs' = Append(recs, [NewRec(recordingDuration)
                                                   EXCEPT !.state = "recording"])
                          \* recordingIntervalRef.current = setInterval(...)
                          /\ intervals' = intervals \cup {Len(recs) + 1}
                          /\ intervalRef' = Len(recs) + 1
                          /\ lastOp' = [op |-> "startStreaming", stream |-> stream,
                                        wasRecording |-> isRecording, arg |-> 0,
                                        result |-> "ok"]
                     \* mediaRecorder.start on an inactive stream throws: caught
                     ELSE /\ recs' = Append(recs, NewRec(recordingDuration))
                          /\ lastOp' = [op |-> "startStreaming", stream |-> stream,
                                        wasRecording |-> isRecording, arg |-> 0,
                                        result |-> "caught"]
                          /\ UNCHANGED <<intervals, intervalRef>>
  /\ UNCHANGED <<mounted, cameraPending, stream, mimeSupported, pendingStop,
                 nextChunk, now, nextUrl, lsStreamRecordings, lsHasRecordings, saves, gVars,
                 liveUrls, trackVars>>

\* the inverted test (state === 'inactive') would be a bug
RecorderActiveBad(rec) == rec.state = "inactive"

\* mediaRecorderRef.current.state !== 'inactive'
RecorderActive(rec) == rec.state # "inactive"

\* a clearInterval that does not clear would be a bug
ClearIntervalBad(ints, ref) == ints

\* clearInterval(ref)
ClearInterval(ints, ref) == ints \ {ref}

\* body of stopStreaming
DoStop ==
  /\ isStreaming' = FALSE
  /\ isRecording' = FALSE
  \* mediaRecorder.stop() itself does nothing on an inactive recorder
  /\ IF curRec # 0 /\ RecorderActive(recs[curRec]) /\ recs[curRec].state = "recording"
     THEN \E size \in {0, 1} :
            LET final == IF size = 1 /\ nextChunk <= MaxChunks
                         THEN [id |-> nextChunk, size |-> 1]
                         ELSE [id |-> 0, size |-> 0]
            IN /\ recs' = [recs EXCEPT ![curRec].state = "inactive",
                                       ![curRec].stopped = TRUE,
                                       ![curRec].final = final,
                                       ![curRec].emitted =
                                          IF final.size > 0 THEN Append(@, final.id)
                                          ELSE @]
               /\ nextChunk' = IF final.size > 0 THEN nextChunk + 1 ELSE nextChunk
               /\ pendingStop' = pendingStop \cup {curRec}
     ELSE UNCHANGED <<recs, nextChunk, pendingStop>>
  \* if (recordingIntervalRef.current) clearInterval(recordingIntervalRef.current)
  /\ intervals' = IF intervalRef # 0 THEN ClearInterval(intervals, intervalRef)
                  ELSE intervals
  /\ UNCHANGED intervalRef
  /\ tracks' = IF stream = "none" THEN tracks ELSE StopTracks(tracks)
  /\ stream' = IF stream = "none" THEN "none" ELSE StreamAfter(tracks')

\* stopStreaming (Stop button, shown while isStreaming)
StopStreaming ==
  /\ mounted /\ isStreaming
  /\ DoStop
  /\ lastOp' = [op |-> "stopStreaming", stream |-> stream,
                wasRecording |-> isRecording, arg |-> 0, result |-> "ok"]
  /\ UNCHANGED <<mounted, cameraPending, mimeSupported, recordingDuration,
                 curRec, chunksRef, now, nextUrl, lsStreamRecordings, lsHasRecordings, saves,
                 gVars, liveUrls, uiEnabled>>

\* a cleanup that only clears the interval, without stopStreaming(), would
\* be a bug
UnmountBad ==
  /\ mounted
  /\ mounted' = FALSE
  /\ intervals' = IF intervalRef # 0 THEN ClearInterval(intervals, intervalRef)
                  ELSE intervals
  /\ lastOp' = [op |-> "stopStreaming", stream |-> stream,
                wasRecording |-> isRecording, arg |-> 1, result |-> "ok"]
  /\ UNCHANGED <<cameraPending, stream, mimeSupported, isStreaming, isRecording,
                 recordingDuration, intervalRef, recs, curRec, chunksRef, pendingStop,
                 nextChunk, now, nextUrl, lsStreamRecordings, lsHasRecordings, saves,
                 gVars, liveUrls, trackVars>>

\* useEffect cleanup on unmount: stopStreaming(); clearInterval(...)
Unmount ==
  /\ mounted
  /\ mounted' = FALSE
  /\ DoStop
  /\ lastOp' = [op |-> "stopStreaming", stream |-> stream,
                wasRecording |-> isRecording, arg |-> 1, result |-> "ok"]
  /\ UNCHANGED <<cameraPending, mimeSupported, recordingDuration,
                 curRec, chunksRef, now, nextUrl, lsStreamRecordings, lsHasRecordings, saves,
                 gVars, liveUrls, uiEnabled>>

\* recordingInterval: setRecordingDuration(prev => prev + 1) every second
DurationTick ==
  \E i \in intervals :
  /\ recordingDuration < MaxTicks
  /\ recordingDuration' = recordingDuration + 1
  /\ now' = now + 1
  /\ recs' = [recs EXCEPT ![i].ticks = @ + 1]
  /\ lastOp' = [NoOp EXCEPT !.op = "tick"]
  /\ UNCHANGED <<mounted, cameraPending, stream, mimeSupported, isStreaming,
                 isRecording, intervals, intervalRef, curRec, chunksRef, pendingStop,
                 nextChunk, nextUrl, lsStreamRecordings, lsHasRecordings, saves, gVars,
                 liveUrls, trackVars>>

\* MediaRecorder timeslice (start(1000)): a dataavailable event
RecorderData ==
  \E r \in DOMAIN recs, size \in {0, 1} :
    /\ recs[r].state = "recording"
    /\ nextChunk <= MaxChunks
    /\ LET data == IF size = 1 THEN [id |-> nextChunk, size |-> 1]
                   ELSE [id |-> 0, size |-> 0]
       IN /\ chunksRef' = OnDataAvailable(chunksRef, data)
          /\ recs' = [recs EXCEPT ![r].emitted =
                        IF size = 1 THEN Append(@, nextChunk) ELSE @]
          /\ nextChunk' = IF size = 1 THEN nextChunk + 1 ELSE nextChunk
    /\ lastOp' = [NoOp EXCEPT !.op = "dataavailable"]
    /\ UNCHANGED <<mounted, cameraPending, stream, mimeSupported, isStreaming,
                   isRecording, recordingDuration, intervals, intervalRef, curRec,
                   pendingStop, now, nextUrl, lsStreamRecordings, lsHasRecordings, saves,
                   gVars, liveUrls, trackVars>>

\* the MediaRecorder stop task: final dataavailable, then onstop -> saveRecording
RecorderStopTask ==
  \E r \in pendingStop :
    LET seen == StopTaskSeen(chunksRef, recs[r].final)
    IN /\ chunksRef' = seen
       /\ SaveRecording(seen, recs[r].onstopDur, r)
       /\ recs' = [recs EXCEPT ![r].finalized = TRUE, ![r].handoffs = @ + 1]
       /\ pendingStop' = pendingStop \ {r}
       /\ UNCHANGED <<mounted, cameraPending, stream, mimeSupported,
                      isStreaming, isRecording, recordingDuration,
                      intervals, intervalRef, curRec, nextChunk, now, gVars, liveUrls,
                      trackVars>>

\* videoTrack.enabled = !videoTrack.enabled (toggling every kind would be a bug)
ToggleTrackBad(tr, kind) == [k \in Kinds |-> [tr[k] EXCEPT !.enabled = ~@]]

\* getVideoTracks()[0] / getAudioTracks()[0]: track.enabled = !track.enabled
ToggleTrack(tr, kind) == [tr EXCEPT ![kind].enabled = ~@]

\* toggleVideo / toggleAudio (buttons always rendered)
ToggleKind ==
  /\ mounted
  /\ \E kind \in Kinds :
       /\ IF stream # "none"
          THEN /\ tracks' = ToggleTrack(tracks, kind)
               /\ uiEnabled' = [uiEnabled EXCEPT ![kind] = tracks'[kind].enabled]
          ELSE UNCHANGED trackVars
       /\ lastOp' = [NoOp EXCEPT !.op = "toggle", !.stream = stream,
                                 !.arg = IF kind = "video" THEN 1 ELSE 2]
  /\ UNCHANGED <<mounted, cameraPending, stream, mimeSupported, isStreaming,
                 isRecording, recordingDuration, intervals, intervalRef, recs, curRec,
                 chunksRef, pendingStop, nextChunk, now, nextUrl,
                 lsStreamRecordings, lsHasRecordings, saves, gVars, liveUrls>>

BroadcasterNext ==
  \/ AcquireCamera \/ StartStreaming \/ StopStreaming \/ Unmount
  \/ DurationTick \/ RecorderData \/ RecorderStopTask \/ ToggleKind

\* ---- VideoGallery ----

\* filter with the comparison inverted (keeps only the deleted id)
RemoveIdBad(list, videoId) == SelectSeq(list, LAMBDA v : v.id = videoId)

\* savedVideos.filter(video => video.id !== videoId)
RemoveId(list, videoId) == SelectSeq(list, LAMBDA v : v.id # videoId)

\* mount effect: loadSavedVideos reads localStorage 'savedVideos'
LoadSavedVideos ==
  /\ LET parsed == ParseItem(lsHasSaved, lsSavedVideos) IN
     \* setSavedVideos(null) makes the next render throw: the gallery is gone
     /\ galleryList' = parsed.list
     /\ galleryLoaded' = parsed.ok
     /\ lastOp' = [NoOp EXCEPT !.op = "loadSavedVideos",
                               !.result = IF parsed.ok THEN "ok" ELSE "TypeError"]
  /\ selected' = {}
  /\ appendsAtLoad' = Len(lsStreamRecordings)
  /\ UNCHANGED <<bVars, lsSavedVideos, lsHasSaved, removedIds, liveUrls>>

\* clicking a video card: setSelectedVideo(video)
SelectVideo ==
  /\ galleryLoaded
  /\ \E i \in DOMAIN galleryList : selected' = {galleryList[i]}
  /\ lastOp' = [NoOp EXCEPT !.op = "selectVideo"]
  /\ UNCHANGED <<bVars, lsSavedVideos, lsHasSaved, galleryList, galleryLoaded,
                 removedIds, appendsAtLoad, liveUrls>>

\* never clearing the selection would be a bug
SelectionAfterDeleteBad(sel, videoId) == sel

\* if (selectedVideo?.id === videoId) setSelectedVideo(null)
SelectionAfterDelete(sel, videoId) ==
  IF \E v \in sel : v.id = videoId THEN {} ELSE sel

\* deleteVideo(videoId)
DeleteVideo ==
  /\ galleryLoaded
  /\ \E videoId \in DeleteIds :
       LET updatedVideos == RemoveId(galleryList, videoId)
       IN /\ galleryList' = updatedVideos
          /\ lsSavedVideos' = updatedVideos
          /\ lsHasSaved' = TRUE
          /\ selected' = SelectionAfterDelete(selected, videoId)
          /\ removedIds' = removedIds \cup {videoId}
          /\ lastOp' = [NoOp EXCEPT !.op = "deleteVideo", !.arg = videoId]
  /\ UNCHANGED <<bVars, galleryLoaded, appendsAtLoad, liveUrls>>

GalleryNext == LoadSavedVideos \/ SelectVideo \/ DeleteVideo

Init ==
  /\ BInit
  /\ qEntries = <<>> /\ qTerm = <<>> /\ qFilter = "all" /\ qSort = "date"
  /\ qNow = 0 /\ qResult = <<>>

Next == (BroadcasterNext \/ GalleryNext) /\ UNCHANGED qVars

Spec == Init /\ [][Next]_vars

\* ---- VideoGallery query (filteredAndSortedVideos) ----

\* time unit of the model: half a day (24 * 60 * 60 * 1000 ms = 2 units)
UnitsPerDay == 2
\* query inputs
MaxQ == 3
Nows == {60, 61}
Terms == {<<>>, <<"A">>, <<"b", "a">>, <<"B">>}
Filters == {"all", "today", "week", "month"}
SortKeys == {"date", "duration", "name"}
QE1 == [id |-> 1, filename |-> <<"a", "b">>, streamId |-> <<"a">>, timestamp |-> 61, duration |-> 2]
QE2 == [id |-> 2, filename |-> <<"A", "b">>, streamId |-> <<"b">>, timestamp |-> 59, duration |-> 2]
QE3 == [id |-> 3, filename |-> <<"b">>, streamId |-> <<"a">>, timestamp |-> 46, duration |-> 1]
QE4 == [id |-> 4, filename |-> <<"b">>, streamId |-> <<"B", "a">>, timestamp |-> 0, duration |-> 3]
QE5 == [id |-> 5, filename |-> <<"a", "b">>, streamId |-> <<"b">>, timestamp |-> 60, duration |-> 1]
QE6 == [id |-> 6, filename |-> <<"A">>, streamId |-> <<"a">>, timestamp |-> 61, duration |-> 2]
QPool == {QE1, QE2, QE3, QE4, QE5, QE6}
\* savedVideos lists: distinct entries in any stored order
QLists == { s \in UNION {[1..n -> QPool] : n \in 0..MaxQ} :
              \A i, j \in DOMAIN s : i # j => s[i] # s[j] }

\* String.prototype.toLowerCase on the alphabet {a, A, b, B}
Lower(c) == CASE c = "A" -> "a" [] c = "B" -> "b" [] OTHER -> c
LowerStr(str) == [i \in DOMAIN str |-> Lower(str[i])]

\* String.prototype.includes
Includes(str, t) ==
  \E i \in 0..(Len(str) - Len(t)) : SubSeq(str, i + 1, i + Len(t)) = t

\* searching without lowercasing the term would be a bug
MatchesSearchBad(v, term) ==
  \/ Includes(LowerStr(v.filename), term)
  \/ Includes(LowerStr(v.streamId), term)

\* matchesSearch
MatchesSearch(v, term) ==
  \/ Includes(LowerStr(v.filename), LowerStr(term))
  \/ Includes(LowerStr(v.streamId), LowerStr(term))

\* Date.prototype.toDateString: the local calendar day of a time
ToDateString(t) == t \div UnitsPerDay

\* 'today' as the last 24 hours would be a bug
PassesTimeFilterBad(v, f, nowT) ==
  CASE f = "today" -> v.timestamp >= nowT - UnitsPerDay
    [] f = "week" -> v.timestamp >= nowT - 7 * UnitsPerDay
    [] f = "month" -> v.timestamp >= nowT - 30 * UnitsPerDay
    [] OTHER -> TRUE

\* switch (filterBy)
PassesTimeFilter(v, f, nowT) ==
  CASE f = "today" -> ToDateString(v.timestamp) = ToDateString(nowT)
    [] f = "week" -> v.timestamp >= nowT - 7 * UnitsPerDay
    [] f = "month" -> v.timestamp >= nowT - 30 * UnitsPerDay
    [] OTHER -> TRUE

\* savedVideos.filter(...)
FilterEntries(es, term, f, nowT) ==
  SelectSeq(es, LAMBDA v : MatchesSearch(v, term) /\ PassesTimeFilter(v, f, nowT))

\* String.prototype.localeCompare (en collation): letters compared
\* case-insensitively first, then lowercase before uppercase
BaseRank(c) == IF Lower(c) = "a" THEN 1 ELSE 2
CaseRank(c) == IF c = Lower(c) THEN 0 ELSE 1
RECURSIVE LexCmp(_, _)
LexCmp(x, y) ==
  IF x = <<>> /\ y = <<>> THEN 0
  ELSE IF x = <<>> THEN -1
  ELSE IF y = <<>> THEN 1
  ELSE IF Head(x) < Head(y) THEN -1
  ELSE IF Head(x) > Head(y) THEN 1
  ELSE LexCmp(Tail(x), Tail(y))
LocaleCompare(x, y) ==
  LET p == LexCmp([i \in DOMAIN x |-> BaseRank(x[i])], [i \in DOMAIN y |-> BaseRank(y[i])])
  IN IF p # 0 THEN p
     ELSE LexCmp([i \in DOMAIN x |-> CaseRank(x[i])], [i \in DOMAIN y |-> CaseRank(y[i])])

\* the sort comparator (a, b) => ...
Compare(a, b, key) ==
  CASE key = "date" -> b.timestamp - a.timestamp
    [] key = "duration" -> b.duration - a.duration
    [] key = "name" -> LocaleCompare(a.filename, b.filename)
    [] OTHER -> 0

\* Array.prototype.sort is stable: x goes before the first element that
\* compares greater than it
RECURSIVE Insert(_, _, _)
Insert(x, sorted, key) ==
  IF sorted = <<>> THEN <<x>>
  ELSE IF Compare(Head(sorted), x, key) > 0 THEN <<x>> \o sorted
  ELSE <<Head(sorted)>> \o Insert(x, Tail(sorted), key)
RECURSIVE StableSort(_, _)
StableSort(es, key) ==
  IF es = <<>> THEN <<>>
  ELSE Insert(es[Len(es)], StableSort(SubSeq(es, 1, Len(es) - 1), key), key)

\* filteredAndSortedVideos
FilteredAndSorted(es, term, f, key, nowT) ==
  StableSort(FilterEntries(es, term, f, nowT), key)

\* sorting savedVideos itself in place would be a bug
EntriesAfterRenderBad(es, key) == StableSort(es, key)

\* .sort() acts on the array returned by .filter(), never on savedVideos
EntriesAfterRender(es, key) == es

\* a state change re-renders: new Date() is read and the view recomputed
Render(term, f, key) ==
  /\ qTerm' = term /\ qFilter' = f /\ qSort' = key
  /\ \E n \in Nows :
       /\ n >= qNow
       /\ qNow' = n
       /\ qResult' = FilteredAndSorted(qEntries, term, f, key, n)
  /\ qEntries' = EntriesAfterRender(qEntries, key)

\* setSearchTerm (search box)
SetSearchTerm == \E t \in Terms : Render(t, qFilter, qSort)
\* setFilterBy (filter select)
SetFilterBy == \E f \in Filters : Render(qTerm, f, qSort)
\* setSortBy (sort select)
SetSortBy == \E key \in SortKeys : Render(qTerm, qFilter, key)

QInit ==
  /\ BInit
  /\ mimeSupported /\ lsStreamRecordings = <<>> /\ lsSavedVideos = <<>>
  /\ qEntries \in QLists
  /\ qTerm \in Terms /\ qFilter \in Filters /\ qSort \in SortKeys
  /\ qNow \in Nows
  /\ qResult = FilteredAndSorted(qEntries, qTerm, qFilter, qSort, qNow)

QNext ==
  /\ SetSearchTerm \/ SetFilterBy \/ SetSortBy
  /\ UNCHANGED <<bVars, gVars, liveUrls, lastOp>>

QSpec == QInit /\ [][QNext]_vars

\* ---- properties ----

\* C1: every entry appended by saveRecording before the gallery's last
\* loadSavedVideos (and not removed) is in the loaded list with the same
\* id, filename, url, timestamp (date), duration and streamId.
C1_RoundTrip ==
  \A i \in 1..appendsAtLoad :
    LET e == lsStreamRecordings[i] IN
      e.id \notin removedIds =>
        \E v \in Range(galleryList) :
          /\ v.id = e.id /\ v.filename = e.filename /\ v.url = e.url
          /\ v.timestamp = e.date /\ v.duration = e.duration
          /\ v.streamId = e.streamId

\* C2: after deleteVideo(id) neither the gallery list nor the stored
\* catalog holds id; deleting an id absent from the catalog changes
\* nothing; a removed id never surfaces again.
C2_RemoveStep ==
  lastOp'.op = "deleteVideo" =>
    LET id == lastOp'.arg IN
      /\ \A i \in DOMAIN galleryList' : galleryList'[i].id # id
      /\ \A i \in DOMAIN lsSavedVideos' : lsSavedVideos'[i].id # id
      /\ (\A i \in DOMAIN lsSavedVideos : lsSavedVideos[i].id # id) =>
            /\ lsSavedVideos' = lsSavedVideos
            /\ galleryList' = galleryList
C2_RemovedNeverSurface ==
  \A id \in removedIds :
    /\ \A i \in DOMAIN galleryList : galleryList[i].id # id
    /\ \A i \in DOMAIN lsSavedVideos : lsSavedVideos[i].id # id
C2_RemoveSafe == [][C2_RemoveStep]_vars /\ []C2_RemovedNeverSurface
C2_Witness ==
  /\ lastOp.op = "deleteVideo"
  /\ 101 \in removedIds
  /\ Cardinality(removedIds) >= 2

\* C4: a run that was stopped with no cadence tick and no chunk still gets
\* a catalog entry with duration 0.
C4_ZeroChunkRunSaved ==
  \A r \in DOMAIN recs :
    (recs[r].finalized /\ recs[r].ticks = 0 /\ recs[r].emitted = <<>>) =>
      \E i \in DOMAIN saves : saves[i].rec = r /\ saves[i].entry.duration = 0

\* C5: the duration stored for a run equals the number of duration-timer
\* ticks of that run.
C5_DurationEqualsTicks ==
  \A i \in DOMAIN saves : saves[i].entry.duration = recs[saves[i].rec].ticks

\* C6: the saved artifact of a run is exactly the chunks its recorder
\* emitted, in emission order.
C6_ArtifactIsRunChunks ==
  \A i \in DOMAIN saves : saves[i].chunks = recs[saves[i].rec].emitted

\* C7: the in-flight chunk flushed by stop() is part of the saved artifact
\* of its run, whatever is interleaved with the stop task.
C7_FinalChunkIncluded ==
  \A r \in DOMAIN recs :
    (recs[r].finalized /\ recs[r].final.size > 0) =>
      \E i \in DOMAIN saves :
        saves[i].rec = r /\ recs[r].final.id \in Range(saves[i].chunks)
C7_Witness ==
  \E i \in DOMAIN saves :
    /\ recs[saves[i].rec].final.size > 0
    /\ Len(saves[i].chunks) >= 2

\* C8: start with no live session or while recording, and stop while not
\* recording, end in InvalidStateError.
C8_InvalidTransitionsRejected ==
  /\ (lastOp.op = "startStreaming" /\ (lastOp.stream # "live" \/ lastOp.wasRecording))
       => lastOp.result = "InvalidStateError"
  /\ (lastOp.op = "stopStreaming" /\ ~lastOp.wasRecording)
       => lastOp.result = "InvalidStateError"

\* C9: a start on a released (ended) stream is rejected with
\* InvalidStateError and leaves the Broadcaster not recording.
C9_RestartOnReleasedRejected ==
  (lastOp.op = "startStreaming" /\ lastOp.stream = "ended") =>
    /\ lastOp.result = "InvalidStateError"
    /\ ~isRecording

\* C10: the recorder never releases the camera: its own steps (dataavailable,
\* the stop task running onstop) leave the tracks unchanged, and a track is
\* ended only by the owner's teardown (stopStreaming, also run on unmount),
\* which has stopped the recorder by then.
C10_RecorderNeverReleases ==
  [][/\ lastOp'.op \in {"dataavailable", "onstop"} => tracks' = tracks
     /\ (\E k \in Kinds : tracks[k].live /\ ~tracks'[k].live) =>
          /\ lastOp'.op = "stopStreaming"
          /\ \A r \in DOMAIN recs' : recs'[r].state # "recording"]_vars
C10_Witness ==
  /\ lastOp.op = "stopStreaming"
  /\ lastOp.wasRecording
  /\ stream = "ended"
  /\ \E r \in DOMAIN recs : recs[r].stopped

\* C11: releasing the stream (stopStreaming) ends every track, raises no
\* error, and on an already-released stream changes nothing.
C11_ReleaseIdempotent ==
  [][(lastOp'.op = "stopStreaming" /\ stream # "none") =>
       /\ \A k \in Kinds : ~tracks'[k].live
       /\ lastOp'.result = "ok"
       /\ (stream = "ended" => tracks' = tracks /\ stream' = stream)]_vars
C11_Witness ==
  /\ lastOp.op = "stopStreaming"
  /\ lastOp.stream = "ended"

\* C12: toggleVideo/toggleAudio flips only that track's enabled flag, never
\* ends a track nor changes the recorder, and is a no-op without a stream.
C12_ToggleFrame ==
  [][lastOp'.op = "toggle" =>
       LET kind == IF lastOp'.arg = 1 THEN "video" ELSE "audio" IN
         /\ stream' = stream /\ isStreaming' = isStreaming
         /\ isRecording' = isRecording /\ recs' = recs
         /\ pendingStop' = pendingStop /\ chunksRef' = chunksRef
         /\ \A k \in Kinds : tracks'[k].live = tracks[k].live
         /\ \A k \in Kinds \ {kind} : tracks'[k].enabled = tracks[k].enabled
         /\ (stream = "none" => tracks' = tracks /\ uiEnabled' = uiEnabled)
         /\ (stream # "none" => tracks'[kind].enabled # tracks[kind].enabled)]_vars
C12_Witness ==
  /\ lastOp.op = "toggle"
  /\ lastOp.stream = "live"
  /\ isRecording
  /\ ~tracks["video"].enabled

\* C13: no two catalog entries share an id (a colliding append is rejected).
C13_IdsUnique ==
  \A i, j \in DOMAIN lsStreamRecordings :
    i # j => lsStreamRecordings[i].id # lsStreamRecordings[j].id

\* C14: when setItem rejects the write, the store's error propagates out of
\* saveRecording, the stored catalog is unchanged, and the blob URL of the
\* orphaned artifact is not left live.
C14_PersistenceError ==
  [][(lastOp'.op = "onstop" /\ lastOp'.result # "empty" /\ ~saves'[Len(saves')].stored) =>
       /\ lastOp'.result \notin {"ok", "empty"}
       /\ lsStreamRecordings' = lsStreamRecordings
       /\ lsHasRecordings' = lsHasRecordings
       /\ saves'[Len(saves')].entry.url \notin liveUrls']_vars
C14_Witness ==
  /\ lastOp.op = "onstop"
  /\ lastOp.result = "QuotaExceededError"
  /\ ~saves[Len(saves)].stored
  /\ lsStreamRecordings = <<OldRec>>

\* C15: every entry stored by an append, and every gallery entry not
\* explicitly removed, stays in the persisted lists under any interleaving
\* of saveRecording and deleteVideo.
C15_NoLostUpdate ==
  [][/\ \A e \in Range(lsStreamRecordings) : e \in Range(lsStreamRecordings')
     /\ (lastOp'.op = "onstop" /\ lastOp'.result = "ok") =>
           saves'[Len(saves')].entry \in Range(lsStreamRecordings')
     /\ \A v \in Range(lsSavedVideos) :
           v \notin Range(lsSavedVideos') =>
             lastOp'.op = "deleteVideo" /\ lastOp'.arg = v.id]_vars
C15_Witness ==
  /\ OldRec \in Range(lsStreamRecordings)
  /\ Len(lsStreamRecordings) = 2
  /\ removedIds # {}
  /\ GV2 \in Range(lsSavedVideos)

\* case-insensitive substring, stated letter by letter
LetterClasses == {{"a", "A"}, {"b", "B"}}
SameLetter(x, y) == \E C \in LetterClasses : x \in C /\ y \in C
CISubstring(str, t) ==
  \E i \in 0..(Len(str) - Len(t)) : \A j \in 1..Len(t) : SameLetter(str[i + j], t[j])
SearchSpec(v, term) ==
  Len(term) = 0 \/ CISubstring(v.filename, term) \/ CISubstring(v.streamId, term)
DayStart(t) == t - (t % UnitsPerDay)

\* C16: filter 'today' returns exactly the entries matching the search whose
\* timestamp lies in the current calendar day.
C16_TodayFilter ==
  qFilter = "today" =>
    \A v \in Range(qEntries) :
      v \in Range(qResult) <=>
        /\ SearchSpec(v, qTerm)
        /\ DayStart(qNow) <= v.timestamp /\ v.timestamp < DayStart(qNow) + UnitsPerDay
C16_Witness ==
  /\ qFilter = "today"
  /\ \E v \in Range(qResult) : v.timestamp < qNow
  /\ \E v \in Range(qEntries) : v \notin Range(qResult) /\ v.timestamp = 59

\* C17: an entry is returned iff it matches the search term (empty term, or
\* a case-insensitive substring of filename or streamId) and the time filter
\* (all; week: >= now - 7 days; month: >= now - 30 days).
C17_FilterStage ==
  qFilter \in {"all", "week", "month"} =>
    \A v \in Range(qEntries) :
      v \in Range(qResult) <=>
        /\ SearchSpec(v, qTerm)
        /\ CASE qFilter = "week" -> v.timestamp >= qNow - 7 * UnitsPerDay
             [] qFilter = "month" -> v.timestamp >= qNow - 30 * UnitsPerDay
             [] OTHER -> TRUE
C17_Witness ==
  /\ qFilter = "week"
  /\ qTerm = <<"A">>
  /\ Len(qResult) >= 1
  /\ \E v \in Range(qEntries) : v \notin Range(qResult)

\* C18: sorting by duration gives non-increasing durations, equal durations
\* ordered by id ascending.
C18_DurationSort ==
  qSort = "duration" =>
    \A i \in 1..(Len(qResult) - 1) :
      \/ qResult[i].duration > qResult[i + 1].duration
      \/ qResult[i].duration = qResult[i + 1].duration /\ qResult[i].id < qResult[i + 1].id

\* C19: the result does not depend on the stored order of the entries.
Perms(es) ==
  { [i \in DOMAIN es |-> es[f[i]]] :
      f \in { g \in [DOMAIN es -> DOMAIN es] : \A j \in DOMAIN es : \E i \in DOMAIN es : g[i] = j } }
C19_OrderIndependent ==
  \A p \in Perms(qEntries) : FilteredAndSorted(p, qTerm, qFilter, qSort, qNow) = qResult

\* C20: computing the view leaves savedVideos and the stored catalog unchanged.
C20_QueryNoMutation ==
  [][qEntries' = qEntries /\ lsSavedVideos' = lsSavedVideos]_vars
C20_Witness ==
  /\ Len(qResult) >= 2
  /\ StableSort(qEntries, qSort) # qEntries

\* C21: the url of every entry stored by saveRecording is a live blob URL
\* while the entry is in the catalog.
C21_ContentRefResolvable ==
  \A i \in DOMAIN saves :
    (saves[i].stored /\ saves[i].entry \in Range(lsStreamRecordings)) =>
      saves[i].entry.url \in liveUrls

\* C22: no run is still recording once the Stop button or the unmount
\* teardown has run, every recorder that was stopped hands off exactly once
\* (its stop task is pending or has run once), and no run produces two
\* catalog entries.
C22_SingleHandoff ==
  \A r \in DOMAIN recs :
    /\ recs[r].state = "recording" => mounted /\ isStreaming /\ r = curRec
    /\ recs[r].stopped =>
         recs[r].handoffs + (IF r \in pendingStop THEN 1 ELSE 0) = 1
    /\ Cardinality({i \in DOMAIN saves : saves[i].rec = r /\ saves[i].stored}) <= 1
C22_Witness ==
  /\ ~mounted
  /\ lastOp.op = "stopStreaming"
  /\ \E r \in DOMAIN recs : recs[r].handoffs = 1 /\ recs[r].stopped

\* C23: loading with the 'savedVideos' key absent yields the empty list, and
\* the first saveRecording on an absent 'streamRecordings' key stores a
\* one-element list.
C23_MissingCollection ==
  [][/\ (lastOp'.op = "loadSavedVideos" /\ ~lsHasSaved) =>
          /\ lastOp'.result = "ok" /\ galleryLoaded' /\ galleryList' = <<>>
     /\ (lastOp'.op = "onstop" /\ lastOp'.result \notin {"empty", "QuotaExceededError"}
           /\ ~lsHasRecordings) =>
          /\ lastOp'.result = "ok"
          /\ lsHasRecordings'
          /\ Len(lsStreamRecordings') = 1]_vars
C23_Witness ==
  /\ lastOp.op = "onstop"
  /\ lastOp.result = "ok"
  /\ Len(lsStreamRecordings) = 1
  /\ lsStreamRecordings[1] # OldRec

\* C24: stopping clears the duration timer: no stopped run keeps a live
\* interval (so no tick is counted after stop), at most the interval held
\* by recordingIntervalRef is live, and none is live while not streaming.
C24_TimerCleared ==
  /\ intervals \subseteq {intervalRef}
  /\ \A r \in DOMAIN recs : recs[r].stopped => r \notin intervals
  /\ ~isStreaming => intervals = {}
C24_Witness ==
  \E r \in DOMAIN recs :
    /\ recs[r].stopped /\ recs[r].ticks >= 1
    /\ intervalRef = r /\ intervals = {}

\* C25: deleteVideo clears the selection exactly when the deleted id is the
\* selected one, and the selected video is always an entry of the list.
C25_SelectionStep ==
  lastOp'.op = "deleteVideo" =>
    (selected' = {} <=> (selected = {} \/ \E v \in selected : v.id = lastOp'.arg))
C25_SelectionSafe ==
  [][C25_SelectionStep]_vars /\ [](\A v \in selected : v \in Range(galleryList))
C25_Witness ==
  /\ lastOp.op = "deleteVideo"
  /\ lastOp.arg \in {101, 102}
  /\ selected # {}
  /\ Len(galleryList) = 1
====
